---- MODULE Spec2Model ----
(***************************************************************************)
(* State-machine model of three components of g3proxy:                     *)
(*   - ProxySocks5UdpConnectRemoteRecv  (escape/proxy_socks5/udp_connect)  *)
(*   - H1WebsocketInterceptObject       (inspect/websocket/h1.rs)          *)
(*   - Greeting                         (inspect/smtp/greeting.rs)         *)
(* Each component has its own specification (SpecUdp, SpecWs, SpecGreet);  *)
(* the variables of the other components stay at their initial values.     *)
(***************************************************************************)
EXTENDS Integers, Sequences, FiniteSets, TLC

VARIABLES
    \* ---- ProxySocks5UdpConnectRemoteRecv
    end_on_control_closed,  \* field end_on_control_closed
    ignore_ctl_stream,      \* field ignore_ctl_stream
    ctl_stream,             \* state of the TCP control connection: "open" | "eof"
    bufs,                   \* the caller's receive buffers, one per UdpCopyPacket
    ctor_end_on,            \* history: the end_on_control_closed argument given to new()
    got_datagram,           \* history: some call has already returned Ok
    udp_last,               \* record of the last receive call (inputs, events, result)
    \* ---- H1WebsocketInterceptObject
    ws_policy,      \* ctx.websocket_inspect_policy()
    ws_detour,      \* ctx.audit_handle.stream_detour_client() is Some
    ws_io,          \* field io: "none" | "some"
    ws_had_io,      \* history: set_io was called before intercept()
    ws_pc,          \* position of intercept()
    ws_takers,      \* history: the branches that took the I/O bundle, in order
    ws_clt,         \* operations done on clt_w by do_block, with their outcomes
    ws_ups_pc,      \* position of the task spawned by do_block
    ws_ups,         \* operations done on ups_w by the spawned task
    ws_r,           \* the selected branch's result (local r of intercept)
    ws_ret,         \* what intercept() returned
    ws_log,         \* the lines written to the intercept logger
    ws_call,        \* history: the relay function the branch called, and its arguments
    \* ---- Greeting
    gr_host,        \* field host (<<>> is Host::empty())
    gr_rsp,         \* field rsp: the ResponseParser's code and finished flag
    gr_total,       \* field total_to_write
    gr_pc,          \* position of relay(): "read" | "write" | "flush" | "done"
    gr_line,        \* do_relay's current line (and its message tail)
    gr_read,        \* history: the lines read from upstream, in arrival order
    gr_written,     \* history: the bytes handed to the client writer by write_all
    gr_bufw,        \* bytes held in relay's BufWriter
    gr_clt,         \* bytes that reached the client writer clt_w
    gr_now,         \* the clock, in ticks since relay() was called
    gr_line_start,  \* the tick at which the current loop iteration began
    gr_pending,     \* the result relay() will return once its flush is done
    gr_res,         \* what relay() returned
    gr_reply,       \* the last reply_no_service call: its error argument and what it did to clt_w
    gr_flush,       \* history: relay()'s final flush of the BufWriter: "none" | "ok" | "failed"
    \* --- HttpsPeerHttpForwardWriter / HttpsPeerHttpRequestWriter (writer.rs)
    fw_variant,     \* which of the two writers this is: "forward" or "request"
    fw_config,      \* config: the shared ProxyFloatHttpsPeerSharedConfig
    fw_upstream,    \* upstream: UpstreamAddr ("none" in the request writer, which has no such field)
    fw_stats,       \* the stats wrapper installed in inner
    fw_now,         \* Instant::now(), in ticks
    fw_expired,     \* history: a send_request_header call has failed as expired
    fw_upd,         \* history: the arguments of the last update_stats call and of the one before
    fw_last,        \* history: the last call made on the writer
    \* --- g3fcgen backend metrics (backend.rs)
    be_stats,       \* the four counters of BackendStats
    be_last         \* history: the last operation, and for emit_stats what it took and sent

udp_vars == <<end_on_control_closed, ignore_ctl_stream, ctl_stream, bufs,
              ctor_end_on, got_datagram, udp_last>>

ws_vars == <<ws_policy, ws_detour, ws_io, ws_had_io, ws_pc, ws_takers, ws_clt,
             ws_ups_pc, ws_ups, ws_r, ws_ret, ws_log, ws_call>>

gr_vars == <<gr_host, gr_rsp, gr_total, gr_pc, gr_line, gr_read, gr_written,
             gr_bufw, gr_clt, gr_now, gr_line_start, gr_pending, gr_res, gr_reply, gr_flush>>

fw_vars == <<fw_variant, fw_config, fw_upstream, fw_stats, fw_now, fw_expired,
             fw_upd, fw_last>>

be_vars == <<be_stats, be_last>>

vars == <<udp_vars, ws_vars, gr_vars, fw_vars, be_vars>>

\* what the actions of one component leave alone: the other components
not_udp == <<ws_vars, gr_vars, fw_vars, be_vars>>
not_ws == <<udp_vars, gr_vars, fw_vars, be_vars>>
not_gr == <<udp_vars, ws_vars, fw_vars, be_vars>>
not_fw == <<udp_vars, ws_vars, gr_vars, be_vars>>
not_be == <<udp_vars, ws_vars, gr_vars, fw_vars>>

(***************************************************************************)
(* Bounds                                                                  *)
(***************************************************************************)
\* number of UdpCopyPacket slots the caller hands to poll_recv_packets
MaxBatch == 2
\* length of each caller buffer, in (scaled) bytes
BufLen == 3
\* number of greeting lines the upstream sends at most
MaxLines == 3
\* capacity of relay's BufWriter, in (scaled) bytes
BufCap == 6
\* the timeout handed to relay(), in ticks
GrTimeout == 2
\* the last tick of the clock
MaxTime == 4
\* ticks allowed to relay() after its deadline in the claimed latency bound
FlushGrace == 1
\* the clock of the forward writer runs from 0 to FwMaxNow
FwMaxNow == 3
\* expiry instants are drawn from 0..FwMaxExpire
FwMaxExpire == 2
\* longest list of per-user stats handed to update_stats
MaxUsers == 1
\* width in bits of the counters and of the emitted integers, scaled down
\* from 64
CounterBits == 3

Min(a, b) == IF a < b THEN a ELSE b

(***************************************************************************)
(* SOCKS5 UDP receiver                                                     *)
(***************************************************************************)

\* const MAX_MSG_SIZE in check_ctl_stream
MAX_MSG_SIZE == 4

\* Datagrams the upstream may send, in a scaled SOCKS5 UDP encapsulation:
\* byte 1 is the reserved/fragment byte (must be 0), byte 2 the address type
\* (1: fixed-size address, header of 2 bytes; 2: address with one more byte,
\* header of 3 bytes), the rest is payload.  The set holds a datagram shorter
\* than any header, a well-formed one of each address type (with and without
\* payload) and one with a malformed header.
Datagrams ==
    { <<0>>, <<0, 1, 7>>, <<0, 2, 5>>, <<1, 1, 7>> }

\* UdpInput::parse_header on the byte slice b: the payload offset, or an error.
parse_header(b) ==
    IF Len(b) < 2 THEN [ok |-> FALSE, off |-> 0]
    ELSE IF b[1] # 0 THEN [ok |-> FALSE, off |-> 0]
    ELSE IF b[2] = 1 THEN [ok |-> TRUE, off |-> 2]
    ELSE IF b[2] = 2 THEN
        IF Len(b) < 3 THEN [ok |-> FALSE, off |-> 0] ELSE [ok |-> TRUE, off |-> 3]
    ELSE [ok |-> FALSE, off |-> 0]

\* What a socket receive does to the caller's buffer: the first nr bytes are
\* overwritten by the datagram (truncated to the buffer), the rest is kept.
RecvInto(buf, d) ==
    [i \in 1..Len(buf) |-> IF i <= Len(d) THEN d[i] ELSE buf[i]]

NRecv(buf, d) == Min(Len(d), Len(buf))

\* Outcomes of the non-blocking poll_read on the control connection.
ProbeOutcomes(cs) ==
    IF cs = "eof"
    THEN { [kind |-> "Ready", n |-> 0] }
    ELSE { [kind |-> "Pending", n |-> 0], [kind |-> "Err", n |-> 0] }
         \cup { [kind |-> "Ready", n |-> k] : k \in 1..MAX_MSG_SIZE }

NoErr == "none"

\* Mutant: EOF on the control channel is always tolerated.
check_ctl_stream_tolerant(end_on, probe) ==
    IF probe.kind = "Pending" THEN [err |-> NoErr, set_ignore |-> FALSE]
    ELSE IF probe.kind = "Err" THEN [err |-> "RemoteSessionError", set_ignore |-> FALSE]
    ELSE IF probe.n = 0 THEN [err |-> NoErr, set_ignore |-> TRUE]
    ELSE IF probe.n = MAX_MSG_SIZE
        THEN [err |-> "RemoteSessionError", set_ignore |-> FALSE]
    ELSE [err |-> NoErr, set_ignore |-> FALSE]

\* Mutant: a tolerated EOF is not remembered in ignore_ctl_stream.
check_ctl_stream_forgetful(end_on, probe) ==
    IF probe.kind = "Pending" THEN [err |-> NoErr, set_ignore |-> FALSE]
    ELSE IF probe.kind = "Err" THEN [err |-> "RemoteSessionError", set_ignore |-> FALSE]
    ELSE IF probe.n = 0 THEN
        IF end_on THEN [err |-> "RemoteSessionClosed", set_ignore |-> FALSE]
        ELSE [err |-> NoErr, set_ignore |-> FALSE]
    ELSE IF probe.n = MAX_MSG_SIZE
        THEN [err |-> "RemoteSessionError", set_ignore |-> FALSE]
    ELSE [err |-> NoErr, set_ignore |-> FALSE]

\* a probe that treats any stray bytes on the control channel as an error
check_ctl_stream_strict(end_on, probe) ==
    IF probe.kind = "Pending" THEN [err |-> NoErr, set_ignore |-> FALSE]
    ELSE IF probe.kind = "Err" THEN [err |-> "RemoteSessionError", set_ignore |-> FALSE]
    ELSE IF probe.n = 0 THEN
        IF end_on THEN [err |-> "RemoteSessionClosed", set_ignore |-> FALSE]
        ELSE [err |-> NoErr, set_ignore |-> TRUE]
    ELSE [err |-> "RemoteSessionError", set_ignore |-> FALSE]

\* check_ctl_stream: the error it returns (or none) and whether it sets
\* ignore_ctl_stream.
check_ctl_stream(end_on, probe) ==
    IF probe.kind = "Pending" THEN [err |-> NoErr, set_ignore |-> FALSE]
    ELSE IF probe.kind = "Err" THEN [err |-> "RemoteSessionError", set_ignore |-> FALSE]
    ELSE IF probe.n = 0 THEN
        IF end_on THEN [err |-> "RemoteSessionClosed", set_ignore |-> FALSE]
        ELSE [err |-> NoErr, set_ignore |-> TRUE]
    ELSE IF probe.n = MAX_MSG_SIZE
        THEN [err |-> "RemoteSessionError", set_ignore |-> FALSE]
    ELSE [err |-> NoErr, set_ignore |-> FALSE]

\* a control stage that probes even when ignore_ctl_stream is set
CtlStage_reprobing(st, probe) ==
    LET c == check_ctl_stream(st.end_on, probe)
    IN [err |-> c.err, ignore |-> (st.ignore \/ c.set_ignore), ev |-> <<"probe">>]

\* `if !self.ignore_ctl_stream { self.check_ctl_stream(cx)?; }`
\* st is [end_on, ignore]; the result carries the events of the stage.
CtlStage(st, probe) ==
    IF st.ignore
    THEN [err |-> NoErr, ignore |-> TRUE, ev |-> <<>>]
    ELSE LET c == check_ctl_stream(st.end_on, probe)
         IN [err |-> c.err, ignore |-> c.set_ignore, ev |-> <<"probe">>]

Pending == [kind |-> "Pending", err |-> NoErr, metas |-> <<>>]
Failed(e) == [kind |-> "Err", err |-> e, metas |-> <<>>]
Ready(m) == [kind |-> "Ok", err |-> NoErr, metas |-> m]

\* Outcomes of the data socket's poll_recv.
RecvOutcomes ==
    { [kind |-> "Pending", dgrams |-> <<>>], [kind |-> "Err", dgrams |-> <<>>] }
    \cup { [kind |-> "Ok", dgrams |-> <<d>>] : d \in Datagrams }

\* Outcomes of the data socket's poll_batch_recvmsg on MaxBatch buffers.
RECURSIVE Batches(_)
Batches(n) ==
    IF n = 0 THEN { <<>> }
    ELSE { Append(b, d) : b \in Batches(n - 1), d \in Datagrams }

BatchRecvOutcomes ==
    { [kind |-> "Pending", dgrams |-> <<>>], [kind |-> "Err", dgrams |-> <<>>] }
    \cup { [kind |-> "Ok", dgrams |-> b] :
             b \in UNION { Batches(n) : n \in 1..MaxBatch } }

\* Mutant: the flag is set as soon as a datagram was received, before the
\* header is parsed.
poll_recv_packet_early_flag(st, probe, rcv, buf) ==
    LET c == CtlStage(st, probe) IN
    IF c.err # NoErr THEN
        [end_on |-> st.end_on, ignore |-> c.ignore, res |-> Failed(c.err),
         ev |-> c.ev, buf |-> buf]
    ELSE IF rcv.kind = "Pending" THEN
        [end_on |-> st.end_on, ignore |-> c.ignore, res |-> Pending,
         ev |-> c.ev \o <<"recv">>, buf |-> buf]
    ELSE IF rcv.kind = "Err" THEN
        [end_on |-> st.end_on, ignore |-> c.ignore, res |-> Failed("RecvFailed"),
         ev |-> c.ev \o <<"recv">>, buf |-> buf]
    ELSE
        LET nbuf == RecvInto(buf, rcv.dgrams[1])
            nr == NRecv(buf, rcv.dgrams[1])
            p == parse_header(nbuf)
        IN IF ~p.ok THEN
               [end_on |-> TRUE, ignore |-> c.ignore,
                res |-> Failed("InvalidPacket"), ev |-> c.ev \o <<"recv">>, buf |-> nbuf]
           ELSE
               [end_on |-> TRUE, ignore |-> c.ignore,
                res |-> Ready(<<[off |-> p.off, len |-> nr]>>),
                ev |-> c.ev \o <<"recv">>, buf |-> nbuf]

\* Mutant: the datagram is received before the control channel is probed.
poll_recv_packet_recv_first(st, probe, rcv, buf) ==
    LET c == CtlStage(st, probe)
        nbuf == IF rcv.kind = "Ok" THEN RecvInto(buf, rcv.dgrams[1]) ELSE buf
    IN
    IF rcv.kind = "Pending" THEN
        [end_on |-> st.end_on, ignore |-> st.ignore, res |-> Pending,
         ev |-> <<"recv">>, buf |-> buf]
    ELSE IF rcv.kind = "Err" THEN
        [end_on |-> st.end_on, ignore |-> st.ignore, res |-> Failed("RecvFailed"),
         ev |-> <<"recv">>, buf |-> buf]
    ELSE IF c.err # NoErr THEN
        [end_on |-> st.end_on, ignore |-> c.ignore, res |-> Failed(c.err),
         ev |-> <<"recv">> \o c.ev, buf |-> nbuf]
    ELSE
        LET nr == NRecv(buf, rcv.dgrams[1])
            p == parse_header(nbuf)
        IN IF ~p.ok THEN
               [end_on |-> st.end_on, ignore |-> c.ignore,
                res |-> Failed("InvalidPacket"), ev |-> <<"recv">> \o c.ev, buf |-> nbuf]
           ELSE
               [end_on |-> TRUE, ignore |-> c.ignore,
                res |-> Ready(<<[off |-> p.off, len |-> nr]>>),
                ev |-> <<"recv">> \o c.ev, buf |-> nbuf]

\* poll_recv_packet on the caller's buffer buf: the new flags, the result,
\* the events of the call in order, and the buffer afterwards.  The header is
\* parsed from the whole buffer (`UdpInput::parse_header(buf)`), not from the
\* nr bytes received.
poll_recv_packet(st, probe, rcv, buf) ==
    LET c == CtlStage(st, probe) IN
    IF c.err # NoErr THEN
        [end_on |-> st.end_on, ignore |-> c.ignore, res |-> Failed(c.err),
         ev |-> c.ev, buf |-> buf]
    ELSE IF rcv.kind = "Pending" THEN
        [end_on |-> st.end_on, ignore |-> c.ignore, res |-> Pending,
         ev |-> c.ev \o <<"recv">>, buf |-> buf]
    ELSE IF rcv.kind = "Err" THEN
        [end_on |-> st.end_on, ignore |-> c.ignore, res |-> Failed("RecvFailed"),
         ev |-> c.ev \o <<"recv">>, buf |-> buf]
    ELSE
        LET nbuf == RecvInto(buf, rcv.dgrams[1])
            nr == NRecv(buf, rcv.dgrams[1])
            p == parse_header(nbuf)
        IN IF ~p.ok THEN
               [end_on |-> st.end_on, ignore |-> c.ignore,
                res |-> Failed("InvalidPacket"), ev |-> c.ev \o <<"recv">>, buf |-> nbuf]
           ELSE
               [end_on |-> TRUE, ignore |-> c.ignore,
                res |-> Ready(<<[off |-> p.off, len |-> nr]>>),
                ev |-> c.ev \o <<"recv">>, buf |-> nbuf]

\* a batch receive that writes each packet's metadata as soon as its header
\* is parsed, so that the packets before a malformed one keep theirs
poll_recv_packets_partial(st, probe, rcv, bs) ==
    LET c == CtlStage(st, probe) IN
    IF c.err # NoErr THEN
        [end_on |-> st.end_on, ignore |-> c.ignore, res |-> Failed(c.err),
         ev |-> c.ev, bufs |-> bs]
    ELSE IF rcv.kind = "Pending" THEN
        [end_on |-> st.end_on, ignore |-> c.ignore, res |-> Pending,
         ev |-> c.ev \o <<"recv">>, bufs |-> bs]
    ELSE IF rcv.kind = "Err" THEN
        [end_on |-> st.end_on, ignore |-> c.ignore, res |-> Failed("RecvFailed"),
         ev |-> c.ev \o <<"recv">>, bufs |-> bs]
    ELSE
        LET count == Len(rcv.dgrams)
            nbufs == [i \in 1..Len(bs) |->
                        IF i <= count THEN RecvInto(bs[i], rcv.dgrams[i]) ELSE bs[i]]
            nr(i) == NRecv(bs[i], rcv.dgrams[i])
            p(i) == parse_header(SubSeq(nbufs[i], 1, nr(i)))
            good == { k \in 0..count : \A i \in 1..k : p(i).ok }
            done == CHOOSE k \in good : \A j \in good : j <= k
        IN IF done < count THEN
               [end_on |-> st.end_on, ignore |-> c.ignore,
                res |-> [kind |-> "Err", err |-> "InvalidPacket",
                         metas |-> [i \in 1..done |-> [off |-> p(i).off, len |-> nr(i)]]],
                ev |-> c.ev \o <<"recv">>, bufs |-> nbufs]
           ELSE
               [end_on |-> TRUE, ignore |-> c.ignore,
                res |-> Ready([i \in 1..count |-> [off |-> p(i).off, len |-> nr(i)]]),
                ev |-> c.ev \o <<"recv">>, bufs |-> nbufs]

\* poll_recv_packets on the caller's buffers bs (one per packet): the new
\* flags, the result with one (off, len) per received packet, the events and
\* the buffers afterwards.  Each header is parsed from `&iov[0..h.n_recv]`.
poll_recv_packets(st, probe, rcv, bs) ==
    LET c == CtlStage(st, probe) IN
    IF c.err # NoErr THEN
        [end_on |-> st.end_on, ignore |-> c.ignore, res |-> Failed(c.err),
         ev |-> c.ev, bufs |-> bs]
    ELSE IF rcv.kind = "Pending" THEN
        [end_on |-> st.end_on, ignore |-> c.ignore, res |-> Pending,
         ev |-> c.ev \o <<"recv">>, bufs |-> bs]
    ELSE IF rcv.kind = "Err" THEN
        [end_on |-> st.end_on, ignore |-> c.ignore, res |-> Failed("RecvFailed"),
         ev |-> c.ev \o <<"recv">>, bufs |-> bs]
    ELSE
        LET count == Len(rcv.dgrams)
            nbufs == [i \in 1..Len(bs) |->
                        IF i <= count THEN RecvInto(bs[i], rcv.dgrams[i]) ELSE bs[i]]
            nr(i) == NRecv(bs[i], rcv.dgrams[i])
            p(i) == parse_header(SubSeq(nbufs[i], 1, nr(i)))
        IN IF \E i \in 1..count : ~p(i).ok THEN
               [end_on |-> st.end_on, ignore |-> c.ignore,
                res |-> Failed("InvalidPacket"), ev |-> c.ev \o <<"recv">>,
                bufs |-> nbufs]
           ELSE
               [end_on |-> TRUE, ignore |-> c.ignore,
                res |-> Ready([i \in 1..count |-> [off |-> p(i).off, len |-> nr(i)]]),
                ev |-> c.ev \o <<"recv">>, bufs |-> nbufs]

NoCall ==
    [path |-> "none", pre_got |-> FALSE, pre_ignore |-> FALSE, pre_end_on |-> FALSE,
     ctl_eof |-> FALSE, probe |-> [kind |-> "Pending", n |-> 0],
     res |-> Pending, ev |-> <<>>, alt |-> Pending, alt_flags |-> <<FALSE, FALSE>>,
     nrecv |-> <<>>]

ZeroBuf == [i \in 1..BufLen |-> 0]

\* ProxySocks5UdpConnectRemoteRecv::new with either value of end_on_control_closed;
\* the caller's buffers start zeroed.
UdpInit ==
    /\ ctor_end_on \in BOOLEAN
    /\ end_on_control_closed = ctor_end_on
    /\ ignore_ctl_stream = FALSE
    /\ ctl_stream = "open"
    /\ bufs = [i \in 1..MaxBatch |-> ZeroBuf]
    /\ got_datagram = FALSE
    /\ udp_last = NoCall

UdpIdle ==
    /\ end_on_control_closed = FALSE
    /\ ignore_ctl_stream = FALSE
    /\ ctl_stream = "open"
    /\ bufs = <<>>
    /\ ctor_end_on = FALSE
    /\ got_datagram = FALSE
    /\ udp_last = NoCall

\* The peer closes the TCP control connection.
CtlPeerClose ==
    /\ ctl_stream = "open"
    /\ ctl_stream' = "eof"
    /\ UNCHANGED not_udp /\ UNCHANGED <<end_on_control_closed, ignore_ctl_stream, bufs, ctor_end_on,
                   got_datagram, udp_last>>

Flags == [end_on |-> end_on_control_closed, ignore |-> ignore_ctl_stream]

\* The outcomes of the data socket a call can meet: the socket is polled
\* only when the control stage lets the call through.
Polled(probe, outcomes) ==
    IF CtlStage(Flags, probe).err # NoErr
    THEN { [kind |-> "Pending", dgrams |-> <<>>] }
    ELSE outcomes

\* What the data socket reported to a call: the n_recv of each datagram it
\* delivered into the buffers bs, none if it delivered nothing.
Received(rcv, bs) ==
    IF rcv.kind = "Ok"
    THEN [i \in 1..Len(rcv.dgrams) |-> NRecv(bs[i], rcv.dgrams[i])]
    ELSE <<>>

\* One call of poll_recv_packet, on the buffer of the caller's first packet.
PollRecvPacket ==
    \E probe \in ProbeOutcomes(ctl_stream) :
    \E rcv \in Polled(probe, RecvOutcomes) :
        \E r \in { poll_recv_packet(Flags, probe, rcv, bufs[1]) },
           a \in { poll_recv_packets(Flags, probe, rcv, <<bufs[1]>>) } :
           /\ end_on_control_closed' = r.end_on
           /\ ignore_ctl_stream' = r.ignore
           /\ bufs' = [bufs EXCEPT ![1] = r.buf]
           /\ got_datagram' = (got_datagram \/ r.res.kind = "Ok")
           /\ udp_last' = [path |-> "single", pre_got |-> got_datagram,
                           pre_ignore |-> ignore_ctl_stream,
                           pre_end_on |-> end_on_control_closed,
                           ctl_eof |-> (ctl_stream = "eof"), probe |-> probe,
                           res |-> r.res, ev |-> r.ev,
                           alt |-> a.res, alt_flags |-> <<a.end_on, a.ignore>>,
                           nrecv |-> Received(rcv, <<bufs[1]>>)]
           /\ UNCHANGED not_udp /\ UNCHANGED <<ctl_stream, ctor_end_on>>

\* One call of poll_recv_packets on the caller's MaxBatch packets; res.metas
\* are the (off, len) the call writes into the packets (`m.set_packet(p)`),
\* none when it does not return Ok.
PollRecvPackets ==
    \E probe \in ProbeOutcomes(ctl_stream) :
    \E rcv \in Polled(probe, BatchRecvOutcomes) :
        \E r \in { poll_recv_packets(Flags, probe, rcv, bufs) } :
           /\ end_on_control_closed' = r.end_on
           /\ ignore_ctl_stream' = r.ignore
           /\ bufs' = r.bufs
           /\ got_datagram' = (got_datagram \/ r.res.kind = "Ok")
           /\ udp_last' = [path |-> "batch", pre_got |-> got_datagram,
                           pre_ignore |-> ignore_ctl_stream,
                           pre_end_on |-> end_on_control_closed,
                           ctl_eof |-> (ctl_stream = "eof"), probe |-> probe,
                           res |-> r.res, ev |-> r.ev,
                           alt |-> r.res, alt_flags |-> <<r.end_on, r.ignore>>,
                           nrecv |-> Received(rcv, bufs)]
           /\ UNCHANGED not_udp /\ UNCHANGED <<ctl_stream, ctor_end_on>>

UdpNext == CtlPeerClose \/ PollRecvPacket \/ PollRecvPackets

(***************************************************************************)
(* H1 websocket interception                                               *)
(***************************************************************************)

Policies == { "Intercept", "Detour", "Bypass", "Block" }

Ok == [ok |-> TRUE, err |-> "none"]
Err(e) == [ok |-> FALSE, err |-> e]
NoResult == [ok |-> FALSE, err |-> "unset"]

\* ServerTaskError::InternalAdapterError(anyhow!("websocket blocked by inspection policy"))
Blocked == "websocket blocked by inspection policy"

\* Results of the transparent duplex relay (transit_transparent) and of the
\* detour client's detour_relay: Ok, or one of the relay's task errors.
RelayResults ==
    { Ok, Err("ClientTcpReadFailed"), Err("UpstreamWriteFailed"), Err("Idle") }

\* Outcomes of write_all_flush on a writer, as the operations it performed:
\* the write fails, or the write succeeds and the flush fails, or both succeed.
WriteAllFlushOutcomes ==
    { <<[op |-> "write_all", ok |-> FALSE]>>,
      <<[op |-> "write_all", ok |-> TRUE], [op |-> "flush", ok |-> FALSE]>>,
      <<[op |-> "write_all", ok |-> TRUE], [op |-> "flush", ok |-> TRUE]>> }

AllOk(ops) == \A i \in 1..Len(ops) : ops[i].ok

\* Mutant: the error of a failed client-side close is returned instead.
do_block_result_escalating(clt_ops) ==
    IF AllOk(clt_ops) THEN Err(Blocked) ELSE Err("ClientTcpWriteFailed")

\* do_block's return value after the client-side close operations clt_ops.
do_block_result(clt_ops) == Err(Blocked)

\* Mutant: the bundle is taken before the detour client is looked up.
do_detour_entry_take_first(client) ==
    IF client THEN [take |-> TRUE, pc |-> "detour_relay"]
    ELSE [take |-> TRUE, pc |-> "bypass"]

\* do_detour up to its first await: without a detour client it returns
\* do_bypass() before touching the bundle, otherwise it takes the bundle.
do_detour_entry(client) ==
    IF client THEN [take |-> TRUE, pc |-> "detour_relay"]
    ELSE [take |-> FALSE, pc |-> "bypass"]

\* Mutant: an error is logged but Ok is returned.
intercept_finish_swallow(r) ==
    [log |-> IF r.ok THEN <<"finished">> ELSE <<"display", r.err>>, ret |-> Ok]

\* The `match r` at the end of intercept(): the line logged ("finished", or
\* the error formatted with "{e}") and the value returned.
intercept_finish(r) ==
    IF r.ok THEN [log |-> <<"finished">>, ret |-> Ok]
    ELSE [log |-> <<"display", r.err>>, ret |-> Err(r.err)]

\* a do_block that joins the upstream close task before going on
do_block_may_proceed_joined(ups_pc) == ups_pc = "done"

\* tokio::spawn(..) with the JoinHandle dropped: once the task is spawned,
\* do_block takes its next step whatever position the task is at.
do_block_may_proceed(ups_pc) == ups_pc \in { "write", "shutdown", "done" }

NoRelayCall == [fn |-> "none", args |-> <<>>]

\* do_bypass: the relay it calls, with its arguments in order
do_bypass_call ==
    [fn |-> "transit_transparent",
     args |-> <<"clt_r", "clt_w", "ups_r", "ups_w",
                "ctx.server_config", "ctx.server_quit_policy", "ctx.user()">>]

\* a do_intercept that crosses the client and the upstream side
do_intercept_call_crossed ==
    [fn |-> "transit_transparent",
     args |-> <<"ups_r", "clt_w", "clt_r", "ups_w",
                "ctx.server_config", "ctx.server_quit_policy", "ctx.user()">>]

\* do_intercept: the relay it calls, with its arguments in order
do_intercept_call ==
    [fn |-> "transit_transparent",
     args |-> <<"clt_r", "clt_w", "ups_r", "ups_w",
                "ctx.server_config", "ctx.server_quit_policy", "ctx.user()">>]

\* do_detour with a detour client: the four handles and the detour context
do_detour_call ==
    [fn |-> "detour_relay",
     args |-> <<"clt_r", "clt_w", "ups_r", "ups_w", "StreamDetourContext">>]

\* H1WebsocketInterceptObject::new, for any policy and detour configuration.
WsInit ==
    /\ ws_policy \in Policies
    /\ ws_detour \in BOOLEAN
    /\ ws_io = "none"
    /\ ws_had_io = FALSE
    /\ ws_pc = "new"
    /\ ws_takers = <<>>
    /\ ws_clt = <<>>
    /\ ws_ups_pc = "none"
    /\ ws_ups = <<>>
    /\ ws_r = NoResult
    /\ ws_ret = NoResult
    /\ ws_log = <<>>
    /\ ws_call = NoRelayCall

WsIdle ==
    /\ ws_policy = "Bypass"
    /\ ws_detour = FALSE
    /\ ws_io = "none"
    /\ ws_had_io = FALSE
    /\ ws_pc = "new"
    /\ ws_takers = <<>>
    /\ ws_clt = <<>>
    /\ ws_ups_pc = "none"
    /\ ws_ups = <<>>
    /\ ws_r = NoResult
    /\ ws_ret = NoResult
    /\ ws_log = <<>>
    /\ ws_call = NoRelayCall

\* set_io
WsSetIo ==
    /\ ws_pc = "new"
    /\ ws_io' = "some"
    /\ ws_had_io' = TRUE
    /\ UNCHANGED not_ws /\ UNCHANGED ws_call /\ UNCHANGED <<ws_policy, ws_detour, ws_pc, ws_takers, ws_clt, ws_ups_pc,
                   ws_ups, ws_r, ws_ret, ws_log>>

\* intercept(): the match on the policy selects the branch.
WsIntercept ==
    /\ ws_pc = "new"
    /\ ws_pc' = CASE ws_policy = "Intercept" -> "intercept"
                  [] ws_policy = "Detour" -> "detour"
                  [] ws_policy = "Bypass" -> "bypass"
                  [] ws_policy = "Block" -> "block"
    /\ UNCHANGED not_ws /\ UNCHANGED ws_call /\ UNCHANGED <<ws_policy, ws_detour, ws_io, ws_had_io, ws_takers, ws_clt,
                   ws_ups_pc, ws_ups, ws_r, ws_ret, ws_log>>

\* `self.io.take().unwrap()` by branch b: panics on an empty slot, otherwise
\* empties the slot and goes on at position next.
TakeIo(b, next) ==
    IF ws_io = "none"
    THEN /\ ws_pc' = "panic"
         /\ UNCHANGED <<ws_io, ws_takers>>
    ELSE /\ ws_io' = "none"
         /\ ws_takers' = Append(ws_takers, b)
         /\ ws_pc' = next

\* do_detour up to the hand-over to the detour client.
WsDoDetour ==
    /\ ws_pc = "detour"
    /\ \E e \in { do_detour_entry(ws_detour) } :
         IF e.take
         THEN TakeIo("detour", e.pc)
         ELSE /\ ws_pc' = e.pc
              /\ UNCHANGED <<ws_io, ws_takers>>
    /\ UNCHANGED not_ws /\ UNCHANGED ws_call /\ UNCHANGED <<ws_policy, ws_detour, ws_had_io, ws_clt, ws_ups_pc, ws_ups,
                   ws_r, ws_ret, ws_log>>

\* client.detour_relay(clt_r, clt_w, ups_r, ups_w, ctx).await
WsDetourRelay ==
    /\ ws_pc = "detour_relay"
    /\ ws_call' = do_detour_call
    /\ ws_r' \in RelayResults
    /\ ws_pc' = "finish"
    /\ UNCHANGED not_ws /\ UNCHANGED <<ws_policy, ws_detour, ws_io, ws_had_io, ws_takers, ws_clt,
                   ws_ups_pc, ws_ups, ws_ret, ws_log>>

\* do_bypass up to the relay.
WsDoBypass ==
    /\ ws_pc = "bypass"
    /\ TakeIo("bypass", "transit")
    /\ UNCHANGED not_ws /\ UNCHANGED ws_call /\ UNCHANGED <<ws_policy, ws_detour, ws_had_io, ws_clt, ws_ups_pc, ws_ups,
                   ws_r, ws_ret, ws_log>>

\* do_intercept up to the relay.
WsDoIntercept ==
    /\ ws_pc = "intercept"
    /\ TakeIo("intercept", "transit")
    /\ UNCHANGED not_ws /\ UNCHANGED ws_call /\ UNCHANGED <<ws_policy, ws_detour, ws_had_io, ws_clt, ws_ups_pc, ws_ups,
                   ws_r, ws_ret, ws_log>>

\* crate::inspect::stream::transit_transparent(..).await, as called by the
\* branch that took the bundle.
WsTransit ==
    /\ ws_pc = "transit"
    /\ ws_call' = IF ws_takers[Len(ws_takers)] = "intercept" THEN do_intercept_call
                  ELSE do_bypass_call
    /\ ws_r' \in RelayResults
    /\ ws_pc' = "finish"
    /\ UNCHANGED not_ws /\ UNCHANGED <<ws_policy, ws_detour, ws_io, ws_had_io, ws_takers, ws_clt,
                   ws_ups_pc, ws_ups, ws_ret, ws_log>>

\* do_block: take the bundle and spawn the upstream close task.
WsDoBlock ==
    /\ ws_pc = "block"
    /\ TakeIo("block", "block_clt_write")
    /\ ws_ups_pc' = IF ws_io = "none" THEN ws_ups_pc ELSE "write"
    /\ UNCHANGED not_ws /\ UNCHANGED ws_call /\ UNCHANGED <<ws_policy, ws_detour, ws_had_io, ws_clt, ws_ups, ws_r, ws_ret,
                   ws_log>>

\* clt_w.write_all_flush(&SERVER_CLOSE_BYTES).await
WsBlockCltWrite ==
    /\ ws_pc = "block_clt_write"
    /\ do_block_may_proceed(ws_ups_pc)
    /\ \E ops \in WriteAllFlushOutcomes :
         /\ ws_clt' = ops
         /\ ws_pc' = IF AllOk(ops) THEN "block_clt_shutdown" ELSE "block_return"
    /\ UNCHANGED not_ws /\ UNCHANGED ws_call /\ UNCHANGED <<ws_policy, ws_detour, ws_io, ws_had_io, ws_takers, ws_ups_pc,
                   ws_ups, ws_r, ws_ret, ws_log>>

\* let _ = clt_w.shutdown().await
WsBlockCltShutdown ==
    /\ ws_pc = "block_clt_shutdown"
    /\ do_block_may_proceed(ws_ups_pc)
    /\ \E ok \in BOOLEAN : ws_clt' = Append(ws_clt, [op |-> "shutdown", ok |-> ok])
    /\ ws_pc' = "block_return"
    /\ UNCHANGED not_ws /\ UNCHANGED ws_call /\ UNCHANGED <<ws_policy, ws_detour, ws_io, ws_had_io, ws_takers, ws_ups_pc,
                   ws_ups, ws_r, ws_ret, ws_log>>

\* Err(ServerTaskError::InternalAdapterError(..)) at the end of do_block
WsBlockReturn ==
    /\ ws_pc = "block_return"
    /\ do_block_may_proceed(ws_ups_pc)
    /\ ws_r' = do_block_result(ws_clt)
    /\ ws_pc' = "finish"
    /\ UNCHANGED not_ws /\ UNCHANGED ws_call /\ UNCHANGED <<ws_policy, ws_detour, ws_io, ws_had_io, ws_takers, ws_clt,
                   ws_ups_pc, ws_ups, ws_ret, ws_log>>

\* spawned task: ups_w.write_all_flush(&CLIENT_CLOSE_BYTES).await
WsUpsWrite ==
    /\ ws_ups_pc = "write"
    /\ \E ops \in WriteAllFlushOutcomes :
         /\ ws_ups' = ops
         /\ ws_ups_pc' = IF AllOk(ops) THEN "shutdown" ELSE "done"
    /\ UNCHANGED not_ws /\ UNCHANGED ws_call /\ UNCHANGED <<ws_policy, ws_detour, ws_io, ws_had_io, ws_pc, ws_takers, ws_clt,
                   ws_r, ws_ret, ws_log>>

\* spawned task: let _ = ups_w.shutdown().await
WsUpsShutdown ==
    /\ ws_ups_pc = "shutdown"
    /\ \E ok \in BOOLEAN : ws_ups' = Append(ws_ups, [op |-> "shutdown", ok |-> ok])
    /\ ws_ups_pc' = "done"
    /\ UNCHANGED not_ws /\ UNCHANGED ws_call /\ UNCHANGED <<ws_policy, ws_detour, ws_io, ws_had_io, ws_pc, ws_takers, ws_clt,
                   ws_r, ws_ret, ws_log>>

\* intercept(): log the branch result and return it.
WsFinish ==
    /\ ws_pc = "finish"
    /\ \E f \in { intercept_finish(ws_r) } :
         /\ ws_log' = Append(ws_log, f.log)
         /\ ws_ret' = f.ret
    /\ ws_pc' = "done"
    /\ UNCHANGED not_ws /\ UNCHANGED ws_call /\ UNCHANGED <<ws_policy, ws_detour, ws_io, ws_had_io, ws_takers, ws_clt,
                   ws_ups_pc, ws_ups, ws_r>>

WsNext ==
    \/ WsSetIo \/ WsIntercept \/ WsDoDetour \/ WsDetourRelay \/ WsDoBypass
    \/ WsDoIntercept \/ WsTransit \/ WsDoBlock \/ WsBlockCltWrite
    \/ WsBlockCltShutdown \/ WsBlockReturn \/ WsUpsWrite \/ WsUpsShutdown
    \/ WsFinish

(***************************************************************************)
(* SMTP greeting                                                           *)
(***************************************************************************)

\* Response lines the upstream may send.  A line is a sequence of units (each
\* counts as one byte): the reply code, the delimiter ("-" continues the
\* reply, " " ends it) and the message; "h" and "E" stand for text that is a
\* valid host, "!" for text that is none, " " for a space.  "?" is a line
\* that is no response line.
Lines ==
    { <<"220", "-", "h">>,            \* service ready, more lines follow
      <<"220", " ", "h", " ", "E">>,  \* service ready, host then text
      <<"220", " ", "E">>,            \* service ready, another host
      <<"220", " ">>,                 \* service ready, empty message
      <<"220", "-", " ", "E">>,       \* service ready, message starts with a space
      <<"220", " ", "!">>,            \* service ready, unparseable host
      <<"554", "-", "E">>,            \* no service, more lines follow
      <<"554", " ", "E">>,            \* no service
      <<"250", " ", "E">>,            \* another reply code
      <<"?">> }                       \* not a response line

ReplyCodes == { "220", "554", "250" }
SERVICE_READY == "220"
NO_SERVICE == "554"

NoCode == "none"

\* ResponseParser::feed_line: the parser afterwards and the message tail, or
\* an error.  The lines of one reply carry the same code.
feed_line(rsp, line) ==
    IF Len(line) < 2 \/ line[1] \notin ReplyCodes \/ line[2] \notin { "-", " " }
    THEN [ok |-> FALSE, rsp |-> rsp, msg |-> <<>>]
    ELSE IF rsp.code # NoCode /\ rsp.code # line[1]
    THEN [ok |-> FALSE, rsp |-> rsp, msg |-> <<>>]
    ELSE [ok |-> TRUE, rsp |-> [code |-> line[1], finished |-> line[2] = " "],
          msg |-> SubSeq(line, 3, Len(line))]

\* memchr::memchr(b' ', msg): the index of the first space, 0 for None.
RECURSIVE memchr_from(_, _)
memchr_from(msg, i) ==
    IF i > Len(msg) THEN 0
    ELSE IF msg[i] = " " THEN i
    ELSE memchr_from(msg, i + 1)

\* a host token that is always the whole message
host_token_whole(msg) == msg

\* host_d: the message up to the first space, or all of it.
host_token(msg) ==
    LET d == memchr_from(msg, 1)
    IN IF d # 0 THEN SubSeq(msg, 1, d - 1) ELSE msg

\* Host::parse_smtp_host_address: the host, or <<>> for None.
parse_smtp_host_address(host_d) ==
    IF \E i \in 1..Len(host_d) : host_d[i] = "!" THEN <<>> ELSE host_d

\* a dispatch that takes the host from every service-ready line
reply_dispatch_rehost(host, rsp, msg) ==
    IF rsp.code = SERVICE_READY THEN
        IF host_token(msg) = <<>>
        THEN [host |-> host, next |-> "NoHostField"]
        ELSE IF parse_smtp_host_address(host_token(msg)) = <<>>
        THEN [host |-> host, next |-> "UnsupportedHostFormat"]
        ELSE [host |-> parse_smtp_host_address(host_token(msg)),
              next |-> IF rsp.finished THEN "return" ELSE "continue"]
    ELSE IF rsp.code = NO_SERVICE THEN
        [host |-> host, next |-> IF rsp.finished THEN "return" ELSE "continue"]
    ELSE [host |-> host, next |-> "UnexpectedReplyCode"]

\* a dispatch that returns Ok on any service-ready or no-service line,
\* finished or not
reply_dispatch_hasty(host, rsp, msg) ==
    IF rsp.code = SERVICE_READY THEN
        IF host = <<>> /\ host_token(msg) = <<>>
        THEN [host |-> host, next |-> "NoHostField"]
        ELSE IF host = <<>> /\ parse_smtp_host_address(host_token(msg)) = <<>>
        THEN [host |-> host, next |-> "UnsupportedHostFormat"]
        ELSE [host |-> IF host = <<>>
                       THEN parse_smtp_host_address(host_token(msg)) ELSE host,
              next |-> "return"]
    ELSE IF rsp.code = NO_SERVICE THEN [host |-> host, next |-> "return"]
    ELSE [host |-> host, next |-> "UnexpectedReplyCode"]

\* The `match self.rsp.code()` of do_relay after a line was forwarded: the
\* host afterwards and what the loop does: "return" Ok, "continue", or an error.
reply_dispatch(host, rsp, msg) ==
    IF rsp.code = SERVICE_READY THEN
        IF host = <<>> /\ host_token(msg) = <<>>
        THEN [host |-> host, next |-> "NoHostField"]
        ELSE IF host = <<>> /\ parse_smtp_host_address(host_token(msg)) = <<>>
        THEN [host |-> host, next |-> "UnsupportedHostFormat"]
        ELSE [host |-> IF host = <<>>
                       THEN parse_smtp_host_address(host_token(msg)) ELSE host,
              next |-> IF rsp.finished THEN "return" ELSE "continue"]
    ELSE IF rsp.code = NO_SERVICE THEN
        [host |-> host, next |-> IF rsp.finished THEN "return" ELSE "continue"]
    ELSE [host |-> host, next |-> "UnexpectedReplyCode"]

\* Mutant: the parsed message is forwarded instead of the raw line.
write_all_arg_msg(line, msg) == msg

\* The bytes do_relay hands to clt_w.write_all: the raw line.
write_all_arg(line, msg) == line

\* Mutant: the deadline is restarted for every line.
relay_deadline_per_line(start, line_start) == line_start + GrTimeout

\* The instant at which tokio::time::timeout gives up on do_relay: it is set
\* once, when relay() starts.
relay_deadline(start, line_start) == start + GrTimeout

\* How far the client writer gets: it accepts everything (-1), or fails
\* after accepting that many more bytes.
FailAt == { -1, 0, 1 }

Accepts(fail_at, data) == fail_at = -1 \/ fail_at >= Len(data)

\* BufWriter::write_all(data) over a client writer that behaves as fail_at:
\* the buffer is flushed first when data does not fit, data of at least the
\* capacity goes straight to the client writer, other data is buffered.
buf_write_all(bufw, clt, data, fail_at) ==
    LET need_flush == Len(bufw) + Len(data) > BufCap
        direct == Len(data) >= BufCap
        to_inner == (IF need_flush THEN bufw ELSE <<>>) \o (IF direct THEN data ELSE <<>>)
        kept == IF need_flush THEN <<>> ELSE bufw
    IN IF Accepts(fail_at, to_inner)
       THEN [ok |-> TRUE, clt |-> clt \o to_inner,
             bufw |-> kept \o (IF direct THEN <<>> ELSE data)]
       ELSE [ok |-> FALSE, clt |-> clt \o SubSeq(to_inner, 1, fail_at),
             bufw |-> IF need_flush THEN SubSeq(bufw, fail_at + 1, Len(bufw)) ELSE bufw]

\* BufWriter::flush over a client writer that behaves as fail_at.
buf_flush(bufw, clt, fail_at) ==
    IF Accepts(fail_at, bufw)
    THEN [ok |-> TRUE, clt |-> clt \o bufw, bufw |-> <<>>]
    ELSE [ok |-> FALSE, clt |-> clt \o SubSeq(bufw, 1, fail_at),
          bufw |-> SubSeq(bufw, fail_at + 1, Len(bufw))]

\* enum GreetingError
GreetingErrors ==
    { "Timeout", "InvalidResponseLine", "TooLongResponseLine", "UnexpectedReplyCode",
      "NoHostField", "UnsupportedHostFormat", "ClientWriteFailed",
      "UpstreamReadFailed", "UpstreamClosed" }

\* The `match e` of reply_no_service: the reason string, "" for the `_` arm.
no_service_reason(e) ==
    CASE e = "Timeout" -> "read timeout"
      [] e = "InvalidResponseLine" -> "invalid response"
      [] e = "UnexpectedReplyCode" -> "unexpected reply code"
      [] e = "UpstreamReadFailed" -> "read failed"
      [] e = "UpstreamClosed" -> "connection closed"
      [] OTHER -> ""

\* What a reply_no_service that answers attempts on clt_w, in order; the
\* three results are dropped (`let _ =`), so a failure stops nothing.
NoServiceOps(reason) ==
    << <<"write_all", "service not ready", reason>>, <<"flush">>, <<"shutdown">> >>

\* reply_no_service without the total_to_write guard
reply_no_service_unguarded(total_to_write, e) ==
    IF no_service_reason(e) = "" THEN <<>> ELSE NoServiceOps(no_service_reason(e))

\* Greeting::reply_no_service: the operations it attempts on clt_w.
reply_no_service(total_to_write, e) ==
    IF total_to_write > 0 THEN <<>>
    ELSE IF no_service_reason(e) = "" THEN <<>>
    ELSE NoServiceOps(no_service_reason(e))

NoReply == [e |-> "none", ops |-> <<>>]

\* a relay() that flushes after every error
relay_flushes_always(e) == TRUE

\* relay(), Ok(Err(e)) arm: the BufWriter is flushed unless e is
\* ClientWriteFailed.
relay_flushes(e) == e # "ClientWriteFailed"

\* a count that leaves the line out until it has been written
count_line_late(total_to_write, line) == total_to_write

\* `self.total_to_write += line.len()`, right after feed_line
count_line(total_to_write, line) == total_to_write + Len(line)

NoLine == [line |-> <<>>, msg |-> <<>>]

\* Greeting::new, and relay() called at tick 0 on an empty BufWriter.
GrInit ==
    /\ gr_host = <<>>
    /\ gr_rsp = [code |-> NoCode, finished |-> FALSE]
    /\ gr_total = 0
    /\ gr_pc = "read"
    /\ gr_line = NoLine
    /\ gr_read = <<>>
    /\ gr_written = <<>>
    /\ gr_bufw = <<>>
    /\ gr_clt = <<>>
    /\ gr_now = 0
    /\ gr_line_start = 0
    /\ gr_pending = NoResult
    /\ gr_res = NoResult
    /\ gr_reply = NoReply
    /\ gr_flush = "none"

GrIdle ==
    /\ gr_host = <<>>
    /\ gr_rsp = [code |-> NoCode, finished |-> FALSE]
    /\ gr_total = 0
    /\ gr_pc = "idle"
    /\ gr_line = NoLine
    /\ gr_read = <<>>
    /\ gr_written = <<>>
    /\ gr_bufw = <<>>
    /\ gr_clt = <<>>
    /\ gr_now = 0
    /\ gr_line_start = 0
    /\ gr_pending = NoResult
    /\ gr_res = NoResult
    /\ gr_reply = NoReply
    /\ gr_flush = "none"

InDoRelay == gr_pc \in { "read", "write" }

\* do_relay: read_line fails.
GrReadFailed ==
    /\ gr_pc = "read"
    /\ \E e \in { "UpstreamReadFailed", "UpstreamClosed", "TooLongResponseLine" } :
         gr_pending' = Err(e)
    /\ gr_pc' = "flush"
    /\ UNCHANGED not_gr
    /\ UNCHANGED <<gr_reply, gr_flush>>
    /\ UNCHANGED <<gr_host, gr_rsp, gr_total, gr_line, gr_read, gr_written, gr_bufw,
                   gr_clt, gr_now, gr_line_start, gr_res>>

\* do_relay: read_line returns a line, which is fed to the parser; a line the
\* parser accepts is counted in total_to_write and goes on to write_all.
GrReadLine ==
    /\ gr_pc = "read"
    /\ Len(gr_read) < MaxLines
    /\ \E line \in Lines :
         \E f \in { feed_line(gr_rsp, line) } :
            /\ gr_read' = Append(gr_read, line)
            /\ IF f.ok
               THEN /\ gr_rsp' = f.rsp
                    /\ gr_total' = count_line(gr_total, line)
                    /\ gr_line' = [line |-> line, msg |-> f.msg]
                    /\ gr_pc' = "write"
                    /\ UNCHANGED gr_pending
               ELSE /\ gr_pending' = Err("InvalidResponseLine")
                    /\ gr_pc' = "flush"
                    /\ UNCHANGED <<gr_rsp, gr_total, gr_line>>
    /\ UNCHANGED not_gr
    /\ UNCHANGED <<gr_reply, gr_flush>>
    /\ UNCHANGED <<gr_host, gr_written, gr_bufw, gr_clt, gr_now, gr_line_start, gr_res>>

\* do_relay: write_all of the line to the BufWriter, then the match on the
\* reply code.  A failed write ends relay() at once, without a flush.
GrWriteLine ==
    /\ gr_pc = "write"
    /\ \E fail_at \in FailAt :
         \E data \in { write_all_arg(gr_line.line, gr_line.msg) } :
         \E w \in { buf_write_all(gr_bufw, gr_clt, data, fail_at) } :
         \E d \in { reply_dispatch(gr_host, gr_rsp, gr_line.msg) } :
            /\ gr_written' = gr_written \o data
            /\ gr_bufw' = w.bufw
            /\ gr_clt' = w.clt
            /\ IF ~w.ok /\ ~relay_flushes("ClientWriteFailed")
               THEN /\ gr_res' = Err("ClientWriteFailed")
                    /\ gr_pc' = "done"
                    /\ UNCHANGED <<gr_host, gr_pending, gr_line_start>>
               ELSE IF ~w.ok
               THEN /\ gr_pending' = Err("ClientWriteFailed")
                    /\ gr_pc' = "flush"
                    /\ UNCHANGED <<gr_host, gr_res, gr_line_start>>
               ELSE /\ gr_host' = d.host
                    /\ gr_pc' = IF d.next = "continue" THEN "read" ELSE "flush"
                    /\ gr_pending' = IF d.next = "continue" THEN gr_pending
                                      ELSE IF d.next = "return" THEN Ok
                                      ELSE Err(d.next)
                    /\ gr_line_start' = IF d.next = "continue" THEN gr_now
                                         ELSE gr_line_start
                    /\ UNCHANGED gr_res
    /\ UNCHANGED not_gr
    /\ UNCHANGED <<gr_reply, gr_flush>>
    /\ UNCHANGED <<gr_rsp, gr_total, gr_line, gr_read, gr_now>>

\* relay(): the timeout elapses while do_relay is pending; do_relay is dropped.
GrTimeoutFires ==
    /\ InDoRelay
    /\ gr_now >= relay_deadline(0, gr_line_start)
    /\ gr_pending' = Err("Timeout")
    /\ gr_pc' = "flush"
    /\ UNCHANGED not_gr
    /\ UNCHANGED <<gr_reply, gr_flush>>
    /\ UNCHANGED <<gr_host, gr_rsp, gr_total, gr_line, gr_read, gr_written, gr_bufw,
                   gr_clt, gr_now, gr_line_start, gr_res>>

\* relay(): `let _ = buf_writer.flush().await`, then return.
GrFlush ==
    /\ gr_pc = "flush"
    /\ \E fail_at \in FailAt :
         \E w \in { buf_flush(gr_bufw, gr_clt, fail_at) } :
            /\ gr_bufw' = w.bufw
            /\ gr_clt' = w.clt
            /\ gr_flush' = IF w.ok THEN "ok" ELSE "failed"
    /\ gr_res' = gr_pending
    /\ gr_pc' = "done"
    /\ UNCHANGED not_gr
    /\ UNCHANGED gr_reply
    /\ UNCHANGED <<gr_host, gr_rsp, gr_total, gr_line, gr_read, gr_written, gr_now,
                   gr_line_start, gr_pending>>

\* Time passes while relay() waits for the upstream or for the client
\* writer.  While do_relay runs under the timeout, the clock cannot pass
\* the deadline without the timeout firing.
GrTick ==
    /\ gr_pc \in { "read", "write", "flush" }
    /\ gr_now < MaxTime
    /\ InDoRelay => gr_now < relay_deadline(0, gr_line_start)
    /\ gr_now' = gr_now + 1
    /\ UNCHANGED not_gr
    /\ UNCHANGED <<gr_reply, gr_flush>>
    /\ UNCHANGED <<gr_host, gr_rsp, gr_total, gr_pc, gr_line, gr_read, gr_written,
                   gr_bufw, gr_clt, gr_line_start, gr_pending, gr_res>>

\* reply_no_service, called on the Greeting once relay() has returned an
\* error; &self leaves the Greeting as it is.
GrReplyNoService ==
    /\ gr_pc = "done"
    /\ ~gr_res.ok
    /\ \E e \in GreetingErrors :
         gr_reply' = [e |-> e, ops |-> reply_no_service(gr_total, e)]
    /\ UNCHANGED not_gr
    /\ UNCHANGED <<gr_host, gr_rsp, gr_total, gr_pc, gr_line, gr_read, gr_written,
                   gr_bufw, gr_clt, gr_now, gr_line_start, gr_pending, gr_res, gr_flush>>

GrNext ==
    \/ GrReadFailed \/ GrReadLine \/ GrWriteLine \/ GrTimeoutFires \/ GrFlush \/ GrTick
    \/ GrReplyNoService

(***************************************************************************)
(* Forward writer: writer.rs                                               *)
(*                                                                         *)
(* HttpsPeerHttpForwardWriter writes the request header in proxy form,     *)
(* HttpsPeerHttpRequestWriter in origin form; both check the expiry of     *)
(* the shared config first and both replace the stats wrapper of the       *)
(* inner LimitedWriter in update_stats.                                    *)
(***************************************************************************)
Variants == { "forward", "request" }
Upstreams == { "u1", "u2" }
TaskStats == { "ta", "tb" }
UserStats == { "ua", "ub" }

RECURSIVE SeqsUpTo(_, _)
SeqsUpTo(S, n) ==
    IF n = 0 THEN { <<>> }
    ELSE SeqsUpTo(S, n - 1)
         \cup { Append(q, x) : q \in { t \in SeqsUpTo(S, n - 1) : Len(t) = n - 1 }, x \in S }

\* user_stats: Vec<Arc<UserUpstreamTrafficStats>>
UserStatsLists == SeqsUpTo(UserStats, MaxUsers)

\* config.expire_instant: Option<Instant>
NoInstant == [some |-> FALSE, at |-> 0]
SomeInstant(t) == [some |-> TRUE, at |-> t]
Configs ==
    { [expire_instant |-> x, append_http_headers |-> "append"] :
        x \in { NoInstant } \cup { SomeInstant(t) : t \in 0..FwMaxExpire } }

\* Instant::checked_duration_since: the time from `earlier` to `self`, None
\* when `earlier` is later than `self`.
checked_duration_since(self, earlier) ==
    IF earlier > self THEN [some |-> FALSE, d |-> 0]
    ELSE [some |-> TRUE, d |-> self - earlier]

\* an expiry check that also refuses at the expiry instant itself
is_expired_inclusive(config, now) ==
    /\ config.expire_instant.some
    /\ config.expire_instant.at <= now

\* `if let Some(expire) = &self.config.expire_instant { ..
\*      if expire.checked_duration_since(now).is_none() {`
is_expired(config, now) ==
    /\ config.expire_instant.some
    /\ ~checked_duration_since(config.expire_instant.at, now).some

Expired == "connection has expired"

\* What the inner writer can answer to the write of the header.
HeaderWriteOutcomes == { Ok, Err("WriteFailed") }

\* send_req_header_via_proxy(&mut self.inner, req, &self.upstream,
\*   &self.config.append_http_headers, None): what is written to inner.
send_req_header_via_proxy(upstream, append_http_headers) ==
    << [form |-> "proxy", upstream |-> upstream, append |-> append_http_headers] >>

\* send_req_header_to_origin(&mut self.inner, req): what is written to inner.
send_req_header_to_origin ==
    << [form |-> "origin", upstream |-> "none", append |-> "none"] >>

\* send_request_header of either writer: the result, and what it hands to
\* inner for writing (<<>> when no write is attempted).
send_request_header(variant, config, upstream, now, io) ==
    IF is_expired(config, now)
    THEN [res |-> Err(Expired), wrote |-> <<>>]
    ELSE [res |-> io,
          wrote |-> IF variant = "forward"
                    THEN send_req_header_via_proxy(upstream, config.append_http_headers)
                    ELSE send_req_header_to_origin]

\* HttpForwardTaskRemoteWrapperStats::new(task_stats)
wrapper_stats_new(task_stats) == [task |-> task_stats, users |-> <<>>]

\* HttpForwardTaskRemoteWrapperStats::push_user_io_stats
push_user_io_stats(wrapper_stats, user_stats) ==
    [wrapper_stats EXCEPT !.users = @ \o user_stats]

\* LimitedWriter::reset_stats: the new stats object takes the place of the old
reset_stats(old_stats, new_stats) == new_stats

\* an update_stats that pushes the user stats onto the wrapper already installed
update_stats_merging(inner_stats, task_stats, user_stats) ==
    reset_stats(inner_stats,
                push_user_io_stats([task |-> task_stats, users |-> inner_stats.users],
                                   user_stats))

\* update_stats of either writer: the stats wrapper inner ends up with.
update_stats(inner_stats, task_stats, user_stats) ==
    reset_stats(inner_stats,
                push_user_io_stats(wrapper_stats_new(task_stats), user_stats))

\* prepare_new: the forward writer takes the new upstream, the request
\* writer has nothing to do.
prepare_new(variant, upstream, new_upstream) ==
    IF variant = "forward" THEN new_upstream ELSE upstream

NoArgs == [task |-> "none", users |-> <<>>]
NoUpdate == [called |-> FALSE, args |-> NoArgs, prev |-> NoArgs]
NoFwCall ==
    [op |-> "none", at |-> 0, res |-> NoResult, wrote |-> <<>>,
     pre_config |-> NoInstant, pre_upstream |-> "none", after_expired |-> FALSE]

\* HttpsPeerHttpForwardWriter::new / HttpsPeerHttpRequestWriter::new over a
\* LimitedWriter that carries the stats it was built with.
FwInit ==
    /\ fw_variant \in Variants
    /\ fw_config \in Configs
    /\ fw_upstream \in IF fw_variant = "forward" THEN Upstreams ELSE { "none" }
    /\ fw_stats = wrapper_stats_new("ta")
    /\ fw_now = 0
    /\ fw_expired = FALSE
    /\ fw_upd = NoUpdate
    /\ fw_last = NoFwCall

FwIdle ==
    /\ fw_variant = "none"
    /\ fw_config = [expire_instant |-> NoInstant, append_http_headers |-> "append"]
    /\ fw_upstream = "none"
    /\ fw_stats = wrapper_stats_new("ta")
    /\ fw_now = 0
    /\ fw_expired = FALSE
    /\ fw_upd = NoUpdate
    /\ fw_last = NoFwCall

FwCall(op, res, wrote) ==
    [op |-> op, at |-> fw_now, res |-> res, wrote |-> wrote,
     pre_config |-> fw_config.expire_instant, pre_upstream |-> fw_upstream,
     after_expired |-> fw_expired]

FwPrepareNew ==
    /\ \E u \in Upstreams :
         fw_upstream' = prepare_new(fw_variant, fw_upstream, u)
    /\ fw_last' = FwCall("prepare_new", Ok, <<>>)
    /\ UNCHANGED not_fw
    /\ UNCHANGED <<fw_variant, fw_config, fw_stats, fw_now, fw_expired, fw_upd>>

FwUpdateStats ==
    /\ \E task_stats \in TaskStats, user_stats \in UserStatsLists :
         /\ fw_stats' = update_stats(fw_stats, task_stats, user_stats)
         /\ fw_upd' = [called |-> TRUE,
                       args |-> [task |-> task_stats, users |-> user_stats],
                       prev |-> fw_upd.args]
    /\ fw_last' = FwCall("update_stats", Ok, <<>>)
    /\ UNCHANGED not_fw
    /\ UNCHANGED <<fw_variant, fw_config, fw_upstream, fw_now, fw_expired>>

FwSendRequestHeader ==
    /\ \E io \in HeaderWriteOutcomes :
         \E r \in { send_request_header(fw_variant, fw_config, fw_upstream, fw_now, io) } :
            /\ fw_last' = FwCall("send_request_header", r.res, r.wrote)
            /\ fw_expired' = (fw_expired \/ r.res = Err(Expired))
    /\ UNCHANGED not_fw
    /\ UNCHANGED <<fw_variant, fw_config, fw_upstream, fw_stats, fw_now, fw_upd>>

\* The monotonic clock advances between calls.
FwTick ==
    /\ fw_now < FwMaxNow
    /\ fw_now' = fw_now + 1
    /\ UNCHANGED not_fw
    /\ UNCHANGED <<fw_variant, fw_config, fw_upstream, fw_stats, fw_expired, fw_upd,
                   fw_last>>

FwNext == FwPrepareNew \/ FwUpdateStats \/ FwSendRequestHeader \/ FwTick

(***************************************************************************)
(* Backend metrics: backend.rs                                             *)
(*                                                                         *)
(* emit_stats takes the four counters of BackendStats and sends each as a  *)
(* statsd count.  The counters are unsigned and the count is signed, both  *)
(* CounterBits wide here.                                                  *)
(***************************************************************************)
\* u64::MAX and i64::MAX at the scaled width
U64_MAX == 2 ^ CounterBits - 1
I64_MAX == 2 ^ (CounterBits - 1) - 1

\* the counters, in the order emit_stats names them
BackendCounters == <<"refresh_total", "refresh_ok", "request_total", "request_ok">>

\* a conversion that reinterprets the bits (`as i64`)
to_count_wrapping(v) == IF v <= I64_MAX THEN v ELSE v - 2 ^ CounterBits

\* i64::try_from(v).unwrap_or(i64::MAX)
to_count(v) == IF v <= I64_MAX THEN v ELSE I64_MAX

\* BackendStats::take_<name>: the counter's value, and the stats with that
\* counter back at zero.
take(stats, name) == [v |-> stats[name], stats |-> [stats EXCEPT ![name] = 0]]

\* emit_count!($take, $name): take the counter, convert, send.
emit_count(acc, name) ==
    LET t == take(acc.stats, name)
    IN [stats |-> t.stats,
        taken |-> Append(acc.taken, t.v),
        sent |-> Append(acc.sent, [name |-> name, v |-> to_count(t.v)])]

\* emit_stats: the four emit_count! in source order.
emit_stats(stats) ==
    emit_count(
      emit_count(
        emit_count(
          emit_count([stats |-> stats, taken |-> <<>>, sent |-> <<>>], "refresh_total"),
          "refresh_ok"),
        "request_total"),
      "request_ok")

ZeroStats == [n \in { BackendCounters[i] : i \in 1..4 } |-> 0]
NoEmit == [op |-> "none", pre |-> ZeroStats, taken |-> <<>>, sent |-> <<>>]

\* BackendStats::default()
BeInit ==
    /\ be_stats = ZeroStats
    /\ be_last = NoEmit

BeIdle ==
    /\ be_stats = ZeroStats
    /\ be_last = NoEmit

\* The generator bumps one of the counters.
BeCount ==
    /\ \E n \in DOMAIN be_stats :
         /\ be_stats[n] < U64_MAX
         /\ be_stats' = [be_stats EXCEPT ![n] = @ + 1]
    /\ be_last' = [NoEmit EXCEPT !.op = "count"]
    /\ UNCHANGED not_be

\* One call of emit_stats.
BeEmitStats ==
    /\ \E r \in { emit_stats(be_stats) } :
         /\ be_stats' = r.stats
         /\ be_last' = [op |-> "emit_stats", pre |-> be_stats,
                        taken |-> r.taken, sent |-> r.sent]
    /\ UNCHANGED not_be

BeNext == BeCount \/ BeEmitStats

(***************************************************************************)
(* Specifications                                                          *)
(***************************************************************************)
InitUdp == UdpInit /\ WsIdle /\ GrIdle /\ FwIdle /\ BeIdle
SpecUdp == InitUdp /\ [][UdpNext]_vars

InitWs == WsInit /\ UdpIdle /\ GrIdle /\ FwIdle /\ BeIdle
SpecWs == InitWs /\ [][WsNext]_vars

InitGreet == GrInit /\ UdpIdle /\ WsIdle /\ FwIdle /\ BeIdle
SpecGreet == InitGreet /\ [][GrNext]_vars

InitFw == FwInit /\ UdpIdle /\ WsIdle /\ GrIdle /\ BeIdle
SpecFw == InitFw /\ [][FwNext]_vars

InitBe == BeInit /\ UdpIdle /\ WsIdle /\ GrIdle /\ FwIdle
SpecBe == InitBe /\ [][BeNext]_vars

(***************************************************************************)
(* Properties of the SOCKS5 UDP receiver                                   *)
(***************************************************************************)
Called == udp_last.path # "none"
Probed == udp_last.ev # <<>> /\ Head(udp_last.ev) = "probe"
ProbeSawEof == Probed /\ udp_last.probe.kind = "Ready" /\ udp_last.probe.n = 0
CtlErrors == { "RemoteSessionClosed", "RemoteSessionError" }

\* C1 as claimed: once a call has decapsulated a datagram, every later call
\* made while the control channel is at EOF fails with RemoteSessionClosed,
\* also when the EOF had been reported before that first datagram.
C1_ClosedAfterTraffic ==
    (Called /\ udp_last.pre_got /\ udp_last.ctl_eof)
        => udp_last.res = Failed("RemoteSessionClosed")

\* C1 amended: once a call has decapsulated a datagram, a later call made
\* while the control channel is at EOF fails with RemoteSessionClosed exactly
\* when ignore_ctl_stream is not set, i.e. unless a probe had already seen the
\* EOF while end_on_control_closed was still false; in that case the probe is
\* skipped and the call does not fail with RemoteSessionClosed.
C1_ClosedAfterTrafficUnlessIgnored ==
    (Called /\ udp_last.pre_got /\ udp_last.ctl_eof)
        => (udp_last.res = Failed("RemoteSessionClosed") <=> ~udp_last.pre_ignore)

\* A tolerant receiver got a datagram, then the control channel closed and the
\* next call failed with RemoteSessionClosed.
C1_Witness ==
    /\ Called /\ udp_last.pre_got /\ udp_last.ctl_eof
    /\ ~ctor_end_on /\ ~udp_last.pre_ignore
    /\ udp_last.res = Failed("RemoteSessionClosed")

\* C2: when the probe reads 0 bytes before any datagram has been decapsulated,
\* the call fails with RemoteSessionClosed iff the receiver was constructed
\* with end_on_control_closed = true; otherwise ignore_ctl_stream is set, the
\* probe returns no error and the call goes on to the data receive.
C2_EarlyEof ==
    (Called /\ ~udp_last.pre_got /\ ProbeSawEof)
        => /\ udp_last.res = Failed("RemoteSessionClosed") <=> ctor_end_on
           /\ ~ctor_end_on =>
                 /\ ignore_ctl_stream
                 /\ udp_last.res.err \notin CtlErrors
                 /\ udp_last.ev = <<"probe", "recv">>

\* A tolerant receiver saw EOF before any datagram and still delivered one.
C2_Witness ==
    /\ udp_last.path = "single" /\ ~udp_last.pre_got /\ ProbeSawEof
    /\ ~ctor_end_on /\ ignore_ctl_stream /\ udp_last.res.kind = "Ok"

\* C3: end_on_control_closed changes only from false to true, only in a call
\* that returns Ok, and that is the first such call; it never reverts, and a
\* call ending in a probe error, RecvFailed, InvalidPacket or Pending leaves
\* it as it was.
C3_FlagFlipsOnce ==
    /\ end_on_control_closed = (ctor_end_on \/ got_datagram)
    /\ Called =>
         /\ udp_last.pre_end_on => end_on_control_closed
         /\ udp_last.res.kind # "Ok" => end_on_control_closed = udp_last.pre_end_on
         /\ end_on_control_closed # udp_last.pre_end_on =>
               /\ ~udp_last.pre_end_on /\ end_on_control_closed
               /\ udp_last.res.kind = "Ok" /\ ~udp_last.pre_got

\* The first successful call of a tolerant receiver flipped the flag.
C3_Witness ==
    /\ Called /\ ~ctor_end_on /\ ~udp_last.pre_end_on /\ ~udp_last.pre_got
    /\ udp_last.res.kind = "Ok" /\ end_on_control_closed

\* C4 as claimed: every call probes the control channel, and does so before
\* the data receive; a call whose probe fails receives no datagram.
C4_ProbeOnEveryCall ==
    Called =>
        /\ Probed
        /\ udp_last.ev = (IF udp_last.res.err \in CtlErrors
                            THEN <<"probe">> ELSE <<"probe", "recv">>)

\* C4 amended: every call made while ignore_ctl_stream is not set probes the
\* control channel before the data receive, and receives no datagram when the
\* probe fails; a call made with ignore_ctl_stream set does not probe at all
\* and goes straight to the data receive.
C4_ProbeFirstUnlessIgnored ==
    Called =>
        IF udp_last.pre_ignore
        THEN udp_last.ev = <<"recv">> /\ udp_last.res.err \notin CtlErrors
        ELSE udp_last.ev = (IF udp_last.res.err \in CtlErrors
                             THEN <<"probe">> ELSE <<"probe", "recv">>)

\* A call probed, the probe passed, and a datagram was then received.
C4_Witness ==
    /\ Called /\ ~udp_last.pre_ignore
    /\ udp_last.ev = <<"probe", "recv">> /\ udp_last.res.kind = "Ok"

\* C5: for the same flags, probe outcome, buffer and received datagram,
\* poll_recv_packet and poll_recv_packets on a batch of one give the same
\* success or error, the same (offset, length) and the same resulting flags.
C5_BatchEqualsSingle ==
    udp_last.path = "single" =>
        /\ udp_last.res = udp_last.alt
        /\ <<end_on_control_closed, ignore_ctl_stream>> = udp_last.alt_flags

(***************************************************************************)
(* Properties of the websocket interception                                *)
(***************************************************************************)

\* C6: under the Block policy the branch result and the value intercept()
\* returns are always the "websocket blocked by inspection policy" error,
\* whatever the outcomes of the close-frame write, flush and shutdown on the
\* client side and on the upstream side; Ok is never returned.
C6_BlockAlwaysBlocked ==
    ws_policy = "Block" =>
        /\ ws_ret # Ok /\ ws_r # Ok
        /\ ws_pc \in { "finish", "done" } => ws_r = Err(Blocked)
        /\ ws_pc = "done" => ws_ret = Err(Blocked)

\* Block returned the blocked error although the close failed on both sides.
C6_Witness ==
    /\ ws_policy = "Block" /\ ws_pc = "done" /\ ws_ret = Err(Blocked)
    /\ ws_clt # <<>> /\ ~AllOk(ws_clt)
    /\ ws_ups_pc = "done" /\ ~AllOk(ws_ups)

WsAfterTake ==
    { "detour_relay", "transit", "block_clt_write", "block_clt_shutdown",
      "block_return", "finish", "done" }

\* C7: when set_io was called before intercept(), no branch takes from an
\* empty slot, and once the run is past its take the bundle has been taken
\* exactly once, by the one branch the policy selects (the Bypass branch for
\* Detour without a detour client).
C7_TakenExactlyOnce ==
    ws_had_io =>
        /\ ws_pc # "panic"
        /\ Len(ws_takers) <= 1
        /\ ws_pc \in WsAfterTake =>
              /\ ws_io = "none"
              /\ ws_takers =
                   CASE ws_policy = "Intercept" -> <<"intercept">>
                     [] ws_policy = "Bypass" -> <<"bypass">>
                     [] ws_policy = "Block" -> <<"block">>
                     [] ws_policy = "Detour" ->
                          IF ws_detour THEN <<"detour">> ELSE <<"bypass">>

\* Detour without a detour client fell through to Bypass, which took the bundle.
C7_Witness ==
    /\ ws_had_io /\ ws_policy = "Detour" /\ ~ws_detour
    /\ ws_pc = "done" /\ ws_takers = <<"bypass">>

\* C8: a completed intercept() has logged exactly one line, "finished" for an
\* Ok branch result and the error's display string otherwise, nothing is
\* logged before the branch has finished, and the branch result is returned
\* unchanged.
C8_OneLogLineResultUnchanged ==
    /\ ws_log # <<>> <=> ws_pc = "done"
    /\ ws_pc = "done" =>
         /\ ws_r # NoResult
         /\ ws_ret = ws_r
         /\ ws_log = IF ws_r.ok THEN << <<"finished">> >>
                                 ELSE << <<"display", ws_r.err>> >>

\* A relay error was logged once and returned.
C8_Witness ==
    /\ ws_pc = "done" /\ ws_policy = "Bypass"
    /\ ws_ret = Err("UpstreamWriteFailed")
    /\ ws_log = << <<"display", "UpstreamWriteFailed">> >>

(***************************************************************************)
(* Properties of the SMTP greeting                                         *)
(***************************************************************************)

RECURSIVE Flatten(_)
Flatten(ls) == IF ls = <<>> THEN <<>> ELSE Head(ls) \o Flatten(Tail(ls))

IsPrefix(a, b) == Len(a) <= Len(b) /\ a = SubSeq(b, 1, Len(a))

\* C9 as claimed: whatever the upstream and the client writer do, relay() has
\* returned within a bounded time (FlushGrace ticks) after its timeout elapsed.
C9_ReturnsWithinBound ==
    gr_pc \in { "read", "write", "flush" } => gr_now <= GrTimeout + FlushGrace

\* C9 amended: one deadline, set when relay() is called and not restarted per
\* line, covers the whole of do_relay: for any number of lines and any pacing
\* do_relay never runs past it, and Timeout is not reported before it.  After
\* it only the final flush of the client writer is awaited, which no deadline
\* covers.
C9_SingleDeadline ==
    /\ InDoRelay => gr_now <= GrTimeout
    /\ (gr_pending = Err("Timeout") \/ gr_res = Err("Timeout")) => gr_now >= GrTimeout

\* The upstream trickled two lines and relay() ended with Timeout.
C9_Witness ==
    /\ gr_pc = "done" /\ gr_res = Err("Timeout")
    /\ Len(gr_read) >= 2 /\ gr_line_start > 0

\* C10: the bytes handed to the client writer are the concatenation of the
\* first lines read from upstream, whole and in arrival order (all of them
\* but at most the last one), and the bytes that reached the client are a
\* prefix of those.
C10_InOrderUnmodified ==
    /\ \E k \in 0..Len(gr_read) :
          /\ k >= Len(gr_read) - 1
          /\ gr_written = Flatten(SubSeq(gr_read, 1, k))
    /\ IsPrefix(gr_clt, gr_written)

\* Three different lines reached the client in the order they were read.
C10_Witness ==
    /\ gr_pc = "done" /\ gr_res = Ok
    /\ Len(gr_read) = 3 /\ gr_read[1] # gr_read[2] /\ gr_read[2] # gr_read[3]
    /\ gr_clt = Flatten(gr_read)

(***************************************************************************)
(* Greeting: the synthetic "service not ready" reply                       *)
(***************************************************************************)
\* C11: once a byte of the greeting has been forwarded to the client,
\* every reply_no_service call, whatever GreetingError it is given, attempts
\* nothing on the client writer (no write, no flush, no shutdown); and
\* total_to_write never decreases, so the suppression is permanent.
C11_NoSyntheticAfterForward ==
    /\ [](gr_clt # <<>> => gr_reply.ops = <<>>)
    /\ [][gr_total' >= gr_total]_vars

\* A banner line reached the client, relay() failed afterwards with an error
\* that has a reason string, and reply_no_service was called with it.
C11_Witness ==
    /\ gr_clt # <<>>
    /\ gr_res = Err("UpstreamClosed")
    /\ gr_reply.e = "UpstreamClosed"

\* C12: when relay() has failed with total_to_write still zero, the
\* reply_no_service call given that error writes the synthetic "service not
\* ready" response to the client, flushes and shuts the writer down.
C12_SyntheticOnEveryEarlyFailure ==
    (/\ gr_pc = "done" /\ ~gr_res.ok
     /\ gr_total = 0
     /\ gr_reply.e = gr_res.err)
    => /\ Len(gr_reply.ops) = 3
       /\ gr_reply.ops[1][1] = "write_all" /\ gr_reply.ops[1][2] = "service not ready"
       /\ gr_reply.ops[2] = <<"flush">>
       /\ gr_reply.ops[3] = <<"shutdown">>

(***************************************************************************)
(* Forward writer                                                          *)
(***************************************************************************)
\* C13: in both writers a send_request_header call made when the
\* configured expiry instant is strictly before now fails as expired and
\* hands nothing to the inner writer; once a call has failed so, every later
\* call fails so too; with no expiry instant, or one that is not before now,
\* the header write is attempted.
C13_ExpiredBeforeAnyByte ==
    fw_last.op = "send_request_header" =>
        LET expire == fw_config.expire_instant
            before == expire.some /\ expire.at < fw_last.at
        IN  /\ before => (fw_last.res = Err(Expired) /\ fw_last.wrote = <<>>)
            /\ ~before => (fw_last.res # Err(Expired) /\ Len(fw_last.wrote) = 1)
            /\ fw_last.after_expired => fw_last.res = Err(Expired)
            /\ fw_last.wrote # <<>> =>
                  fw_last.wrote[1].form = (IF fw_variant = "forward" THEN "proxy" ELSE "origin")

\* The origin-form writer refused a second time, two ticks past its expiry.
C13_Witness ==
    /\ fw_variant = "request"
    /\ fw_last.op = "send_request_header"
    /\ fw_last.after_expired
    /\ fw_config.expire_instant.some
    /\ fw_last.at > fw_config.expire_instant.at + 1
    /\ fw_last.res = Err(Expired)

\* C14: after any sequence of update_stats calls the stats wrapper of the
\* writer holds the task stats and the user stats of the most recent call
\* and nothing else, and an update_stats call leaves the shared config and
\* the upstream address as they were.
C14_StatsReplaced ==
    /\ fw_upd.called =>
          /\ fw_stats.task = fw_upd.args.task
          /\ fw_stats.users = fw_upd.args.users
    /\ fw_last.op = "update_stats" =>
          /\ fw_config.expire_instant = fw_last.pre_config
          /\ fw_upstream = fw_last.pre_upstream

\* A second update_stats with another task sink and no user stats followed
\* one that had attached a user.
C14_Witness ==
    /\ fw_last.op = "update_stats"
    /\ fw_upd.prev.users # <<>>
    /\ fw_upd.args.users = <<>>
    /\ fw_upd.args.task # fw_upd.prev.task
    /\ fw_variant = "forward"

(***************************************************************************)
(* H1 websocket interception: the block branch and the policy routing      *)
(***************************************************************************)
\* C15: in the Block branch the upstream close is a task of its own,
\* spawned before anything is done on the client writer; whatever that task
\* is doing (not started, failed, finished) the client-side close and the
\* return of do_block can take their next step, and whatever failed on
\* either side intercept() returns the blocked error.
C15_UpstreamCloseDetached ==
    /\ (ws_clt # <<>> \/ ws_pc \in { "block_clt_write", "block_clt_shutdown", "block_return" })
          => ws_ups_pc # "none"
    /\ ws_pc = "block_clt_write" => ENABLED WsBlockCltWrite
    /\ ws_pc = "block_clt_shutdown" => ENABLED WsBlockCltShutdown
    /\ ws_pc = "block_return" => ENABLED WsBlockReturn
    /\ (ws_pc = "done" /\ ws_takers = <<"block">>) => ws_ret = Err(Blocked)

\* intercept() returned the blocked error after a complete client-side close
\* while the spawned upstream write had not completed.
C15_Witness ==
    /\ ws_pc = "done" /\ ws_ret = Err(Blocked)
    /\ Len(ws_clt) = 3 /\ AllOk(ws_clt)
    /\ ws_ups_pc = "write" /\ ws_ups = <<>>

\* The transparent relay over the four handles of the bundle.
TransparentRelay ==
    [fn |-> "transit_transparent",
     args |-> <<"clt_r", "clt_w", "ups_r", "ups_w",
                "ctx.server_config", "ctx.server_quit_policy", "ctx.user()">>]

\* C16: once the branch has run (and the bundle was there to take),
\* Intercept and Bypass have both called the transparent relay with the same
\* arguments and return its result; Block has called no relay and fails as
\* blocked; Detour has handed the four handles to the detour client if one
\* is configured, and has done exactly what Bypass does if none is.
C16_PolicyRouting ==
    (ws_pc \in { "finish", "done" }) =>
        /\ ws_policy \in { "Intercept", "Bypass" } =>
              /\ ws_call = TransparentRelay
              /\ ws_takers = << (IF ws_policy = "Bypass" THEN "bypass" ELSE "intercept") >>
              /\ ws_r \in RelayResults
        /\ ws_policy = "Block" =>
              /\ ws_call = NoRelayCall
              /\ ws_takers = <<"block">>
              /\ ws_r = Err(Blocked)
        /\ (ws_policy = "Detour" /\ ws_detour) =>
              /\ ws_call.fn = "detour_relay"
              /\ SubSeq(ws_call.args, 1, 4) = <<"clt_r", "clt_w", "ups_r", "ups_w">>
              /\ ws_takers = <<"detour">>
              /\ ws_r \in RelayResults
        /\ (ws_policy = "Detour" /\ ~ws_detour) =>
              /\ ws_call = TransparentRelay
              /\ ws_takers = <<"bypass">>
              /\ ws_r \in RelayResults

\* An Intercept run came back from the transparent relay with an error.
C16_Witness ==
    /\ ws_policy = "Intercept" /\ ws_pc = "done"
    /\ ws_call.fn = "transit_transparent"
    /\ ws_ret = Err("Idle")

(***************************************************************************)
(* SOCKS5 UDP receiver: the probe's other outcomes, and malformed batches  *)
(***************************************************************************)
\* C17: a probe that reads exactly MAX_MSG_SIZE bytes, or whose read fails,
\* ends the call with RemoteSessionError before the data socket is polled; a
\* probe that reads fewer bytes (but some), or that would block, lets the
\* call go on to the data receive.  None of these outcomes sets
\* ignore_ctl_stream, and none changes end_on_control_closed: that flag
\* differs after such a call only if the call decapsulated a datagram.
C17_ProbeNonEof ==
    (Probed /\ ~ProbeSawEof) =>
        LET probe == udp_last.probe
            fatal == probe.kind = "Err" \/ (probe.kind = "Ready" /\ probe.n = 4)
        IN  /\ ignore_ctl_stream = udp_last.pre_ignore
            /\ fatal => /\ udp_last.res = Failed("RemoteSessionError")
                        /\ udp_last.ev = <<"probe">>
                        /\ end_on_control_closed = udp_last.pre_end_on
            /\ ~fatal => /\ udp_last.ev = <<"probe", "recv">>
                         /\ udp_last.res.err \notin CtlErrors
                         /\ (end_on_control_closed # udp_last.pre_end_on
                               => udp_last.res.kind = "Ok")

\* Three stray bytes were drained from the control channel and the call then
\* returned a datagram.
C17_Witness ==
    /\ Probed /\ udp_last.probe.kind = "Ready" /\ udp_last.probe.n = 3
    /\ udp_last.res.kind = "Ok"
    /\ ~udp_last.pre_end_on /\ end_on_control_closed

\* The received packets of the last call whose header does not parse; the
\* buffers still hold what the call received.
Malformed ==
    { i \in 1..Len(udp_last.nrecv) :
        ~parse_header(SubSeq(bufs[i], 1, udp_last.nrecv[i])).ok }

\* C18: when one of the datagrams a poll_recv_packets call received has a
\* malformed header, wherever it is in the batch, the call fails with
\* InvalidPacket, writes (offset, length) into none of the caller's packets,
\* not even those before the malformed one, and leaves end_on_control_closed
\* as it was.
C18_BatchAllOrNothing ==
    (udp_last.path = "batch" /\ Malformed # {}) =>
        /\ udp_last.res.kind = "Err"
        /\ udp_last.res.err = "InvalidPacket"
        /\ udp_last.res.metas = <<>>
        /\ end_on_control_closed = udp_last.pre_end_on

\* A batch of two whose first datagram is well formed and whose second is
\* not, received while end_on_control_closed was still false.
C18_Witness ==
    /\ udp_last.path = "batch"
    /\ Len(udp_last.nrecv) = 2
    /\ Malformed = { 2 }
    /\ ~udp_last.pre_end_on
    /\ udp_last.res.err = "InvalidPacket"

(***************************************************************************)
(* Greeting: the reply-code dispatch and the host token                    *)
(***************************************************************************)
\* What do_relay has returned, or relay() once it is done.
GrOutcome == IF gr_pc = "done" THEN gr_res ELSE gr_pending

\* C19: do_relay returns Ok only when the reply code is service ready or
\* no service and the parser reports the reply finished; it is back at
\* reading the next line only while such a reply is unfinished; a reply with
\* any other code ends it with UnexpectedReplyCode (and only such a reply
\* does); and once do_relay has returned, with success or with an error, no
\* further line is read.
C19_ReplyCodeDispatch ==
    /\ [](/\ GrOutcome = Ok =>
                (gr_rsp.code \in { "220", "554" } /\ gr_rsp.finished)
          /\ (gr_pc = "read" /\ gr_read # <<>>) =>
                (gr_rsp.code \in { "220", "554" } /\ ~gr_rsp.finished
                 /\ GrOutcome = NoResult)
          /\ GrOutcome = Err("UnexpectedReplyCode") =>
                gr_rsp.code \notin { "220", "554", NoCode }
          /\ (gr_rsp.code \notin { "220", "554", NoCode } /\ gr_pc \in { "flush", "done" }) =>
                GrOutcome \in { Err("UnexpectedReplyCode"), Err("ClientWriteFailed"),
                                Err("Timeout") })
    /\ [][(gr_pc \in { "flush", "done" }) => (gr_read' = gr_read)]_vars

\* Two continuation lines were followed by the line that finished the reply,
\* and relay() returned Ok.
C19_Witness ==
    /\ gr_pc = "done" /\ gr_res = Ok
    /\ Len(gr_read) = 3
    /\ gr_read[1][2] = "-" /\ gr_read[2][2] = "-" /\ gr_read[3][2] = " "

\* C20: the host is taken from the message tail of the first service-ready
\* line: the tail up to its first space, or the whole tail without one.  An
\* empty token fails with NoHostField, one that is no host with
\* UnsupportedHostFormat.  "220 h E" (a host, a space, more text) gives the
\* host h and succeeds; "220 " gives NoHostField.
C20_HostToken ==
    /\ gr_host # <<>> =>
          LET tail == SubSeq(gr_read[1], 3, Len(gr_read[1]))
          IN  /\ IsPrefix(gr_host, tail)
              /\ \A i \in 1..Len(gr_host) : gr_host[i] # " "
              /\ Len(tail) > Len(gr_host) => tail[Len(gr_host) + 1] = " "
    /\ (/\ Len(gr_read) = 1 /\ gr_pc # "write"
        /\ GrOutcome \notin { Err("Timeout"), Err("ClientWriteFailed") }) =>
          /\ gr_read[1] = <<"220", " ", "h", " ", "E">> =>
                (gr_host = <<"h">> /\ GrOutcome = Ok)
          /\ gr_read[1] = <<"220", " ", "E">> =>
                (gr_host = <<"E">> /\ GrOutcome = Ok)
          /\ gr_read[1] = <<"220", "-", "h">> => gr_host = <<"h">>
          /\ gr_read[1] = <<"220", " ">> =>
                (gr_host = <<>> /\ GrOutcome = Err("NoHostField"))
          /\ gr_read[1] = <<"220", "-", " ", "E">> =>
                (gr_host = <<>> /\ GrOutcome = Err("NoHostField"))
          /\ gr_read[1] = <<"220", " ", "!">> =>
                (gr_host = <<>> /\ GrOutcome = Err("UnsupportedHostFormat"))

\* "220 h E" was relayed: the host is h and relay() returned Ok.
C20_Witness ==
    /\ gr_pc = "done" /\ gr_res = Ok
    /\ gr_read = << <<"220", " ", "h", " ", "E">> >>
    /\ gr_host = <<"h">>

C22_FlushUnlessClientWriteFailed ==
    /\ [](gr_pc = "done" =>
            /\ (gr_res = Err("ClientWriteFailed")) <=> (gr_flush = "none")
            /\ gr_flush # "none" => gr_res = gr_pending
            /\ gr_flush = "ok" => (gr_bufw = <<>> /\ gr_clt = gr_written))
    /\ [][(gr_res = Err("ClientWriteFailed")) =>
             (/\ gr_clt' = gr_clt /\ gr_bufw' = gr_bufw
              /\ gr_written' = gr_written /\ gr_flush' = gr_flush)]_vars

\* The timeout fired with a line buffered; the flush failed part-way and
\* relay() still returned Timeout.
C22_Witness ==
    /\ gr_pc = "done" /\ gr_res = Err("Timeout")
    /\ gr_flush = "failed"
    /\ gr_clt # <<>> /\ gr_bufw # <<>>

\* C25: total_to_write counts a line as soon as the parser has accepted
\* it, before the line is written and before its reply code is judged.  So a
\* relay that failed with UnexpectedReplyCode, NoHostField,
\* UnsupportedHostFormat or ClientWriteFailed has a positive count, whatever
\* reached the client, and no reply_no_service answers; a relay that failed
\* with a count of zero failed with Timeout, InvalidResponseLine,
\* TooLongResponseLine, UpstreamReadFailed or UpstreamClosed, on the first
\* line and with nothing written.
C25_CountedBeforeWrite ==
    /\ gr_pc = "write" => gr_total = Len(gr_written) + Len(gr_line.line)
    /\ GrOutcome \in { Err("UnexpectedReplyCode"), Err("NoHostField"),
                       Err("UnsupportedHostFormat"), Err("ClientWriteFailed") }
          => (gr_total > 0 /\ gr_reply.ops = <<>>)
    /\ (~GrOutcome.ok /\ GrOutcome # NoResult /\ gr_total = 0) =>
          /\ GrOutcome.err \in { "Timeout", "InvalidResponseLine", "TooLongResponseLine",
                                 "UpstreamReadFailed", "UpstreamClosed" }
          /\ Len(gr_read) <= 1
          /\ gr_written = <<>>

\* The first line carried another reply code, the flush delivered nothing,
\* and reply_no_service, given UnexpectedReplyCode, stayed silent.
C25_Witness ==
    /\ gr_pc = "done" /\ gr_res = Err("UnexpectedReplyCode")
    /\ gr_clt = <<>>
    /\ gr_total > 0
    /\ gr_reply.e = "UnexpectedReplyCode"

(***************************************************************************)
(* Backend metrics                                                         *)
(***************************************************************************)
\* C23: a call of emit_stats sends exactly four counts, refresh_total,
\* refresh_ok, request_total and request_ok in that order, each the value
\* its counter held when the call began, taken once; a value above the
\* largest signed integer is sent as that largest integer, so what is sent is
\* never negative and never a wrapped value.
C23_FourSaturatedCounts ==
    be_last.op = "emit_stats" =>
        /\ Len(be_last.sent) = 4
        /\ [i \in 1..4 |-> be_last.sent[i].name]
              = <<"refresh_total", "refresh_ok", "request_total", "request_ok">>
        /\ \A i \in 1..4 :
              LET held == be_last.pre[be_last.sent[i].name]
                  v == be_last.sent[i].v
              IN  /\ be_last.taken[i] = held
                  /\ v >= 0
                  /\ held < 2 ^ (CounterBits - 1) => v = held
                  /\ held >= 2 ^ (CounterBits - 1) => v = 2 ^ (CounterBits - 1) - 1

\* refresh_total held the largest unsigned value and request_ok a small
\* one when emit_stats was called.
C23_Witness ==
    /\ be_last.op = "emit_stats"
    /\ be_last.pre["refresh_total"] = 2 ^ CounterBits - 1
    /\ be_last.pre["request_ok"] = 1
    /\ be_last.sent[1].v = 2 ^ (CounterBits - 1) - 1
    /\ be_last.sent[4].v = 1

(***************************************************************************)
(* SOCKS5 UDP receiver: ignore_ctl_stream                                  *)
(***************************************************************************)
\* C24: ignore_ctl_stream is false until a call sets it, and the call that
\* sets it is one whose probe saw EOF while end_on_control_closed was false;
\* it is never cleared; a call made with it set does not probe the control
\* channel and does not fail with RemoteSessionClosed or RemoteSessionError,
\* whatever the state of the control channel and of end_on_control_closed.
C24_IgnoreIsPermanent ==
    /\ [](/\ ~Called => ~ignore_ctl_stream
          /\ (Called /\ ignore_ctl_stream /\ ~udp_last.pre_ignore) =>
                (ProbeSawEof /\ ~udp_last.pre_end_on)
          /\ (Called /\ udp_last.pre_ignore) =>
                /\ ignore_ctl_stream
                /\ \A i \in 1..Len(udp_last.ev) : udp_last.ev[i] # "probe"
                /\ udp_last.res.err \notin CtlErrors)
    /\ [][ignore_ctl_stream => ignore_ctl_stream']_vars

\* With the control channel at EOF, ignore_ctl_stream set and
\* end_on_control_closed already true, a batch call returned datagrams.
C24_Witness ==
    /\ udp_last.path = "batch"
    /\ udp_last.pre_ignore /\ udp_last.pre_end_on /\ udp_last.ctl_eof
    /\ udp_last.res.kind = "Ok"

====
